---- MODULE Spec2Model ----
(***************************************************************************)
(* Model of pkg/database/sqlite.go: New (open, pool settings, pragmas,     *)
(* migrate), Sqlite.migrate, Sqlite.migrateFile and Sqlite.Close, run by   *)
(* one or two operating-system processes against one SQLite database file. *)
(*                                                                         *)
(* The database file is the shared state: the migrations table, its rows   *)
(* and the effects of the script bodies.  A transaction keeps its writes   *)
(* in a private write set until COMMIT installs them atomically; ROLLBACK  *)
(* or the death of the process discards them.  A write needs the single    *)
(* write lock of the file and a read snapshot that is still current.       *)
(***************************************************************************)
EXTENDS Integers, Sequences, FiniteSets, TLC

\* ------------------------------------------------------------------ bounds

\* New calls (process starts) per process.
MaxRuns == 2

\* SQL statements in one migration script body.
MaxStmts == 2

\* Close calls a caller makes on the handle one New call returned.
MaxClose == 2

\* ------------------------------------------------------------- constants

Procs == {"p1", "p2"}

\* The process of the sequential specification.
SeqProcs == {"p1"}

None == "none"

\* The names of the embedded scripts, by the digits that order them:
\* 0001_..., 0002_..., 0010_...
AllNames == {<<0, 0, 0, 1>>, <<0, 0, 0, 2>>, <<0, 0, 1, 0>>}

NoName == <<>>

\* The statements of the script bodies.
StmtIds == AllNames \X (1..MaxStmts)

\* -------------------------------------------------------- pure functions

RECURSIVE LexLess(_, _)
\* Byte-wise lexicographic order of two names (Go's string <).
LexLess(a, b) ==
    IF b = <<>> THEN FALSE
    ELSE IF a = <<>> THEN TRUE
    ELSE IF Head(a) < Head(b) THEN TRUE
    ELSE IF Head(a) > Head(b) THEN FALSE
    ELSE LexLess(Tail(a), Tail(b))

RECURSIVE InsertSorted(_, _)
InsertSorted(x, s) ==
    IF s = <<>> THEN <<x>>
    ELSE IF LexLess(Head(s), x) THEN <<Head(s)>> \o InsertSorted(x, Tail(s))
    ELSE <<x>> \o s

RECURSIVE SortedCopy(_)
SortedCopy(s) ==
    IF s = <<>> THEN <<>> ELSE InsertSorted(Head(s), SortedCopy(Tail(s)))

\* Mutant of SortStrings: the names are used in the order Glob returned them.
SortStringsMissing(s) == s

\* sort.Strings(names)
SortStrings(s) == SortedCopy(s)

\* The orders in which the embedded file system may enumerate a set of names.
Enumerations(S) ==
    {s \in [1..Cardinality(S) -> S] : \A i, j \in 1..Cardinality(S) : i # j => s[i] # s[j]}

Range(s) == {s[i] : i \in 1..Len(s)}

IsSorted(s) == \A i, j \in 1..Len(s) : i < j => LexLess(s[i], s[j])

\* ---------------------------------------------------------------- errors

NoErr == [label |-> "nil", name |-> NoName, cause |-> "nil"]

\* fmt.Errorf("<label>: %w", err) of New for a failed pragma
PragmaError(label) == [label |-> label, name |-> NoName, cause |-> "exec"]

\* Mutant of MigrateError: the error of migrateFile is returned unwrapped.
MigrateErrorUnwrapped(name, cause) ==
    [label |-> "migrate", name |-> NoName, cause |-> cause]

\* fmt.Errorf("migration error: name=%q err=%w", name, err), wrapped by New
\* in fmt.Errorf("migrate: %w", err)
MigrateError(name, cause) == [label |-> "migrate", name |-> name, cause |-> cause]

\* fmt.Errorf("cannot create migrations table: %w", err), wrapped by New
CreateTableError == [label |-> "migrate", name |-> NoName, cause |-> "create"]

\* The label New gives the error of its i-th PRAGMA statement.
PragmaLabel(i) == IF i = 1 THEN "enable wal" ELSE "foreign keys pragma"

\* The setting the i-th PRAGMA statement of New applies.
PragmaSetting(i) ==
    CASE i = 1 -> "journal_mode=wal"
      [] i = 2 -> "synchronous=NORMAL"
      [] i = 3 -> "foreign_keys=ON"
      [] i = 4 -> "busy_timeout=5000"
      [] OTHER -> "wal_autocheckpoint=0"

\* ----------------------------------------------------------- state

VARIABLES
    migrationFS,  \* the embedded scripts, in the order fs.Glob enumerates them
    db,           \* the committed state of the database file
    lock,         \* the process holding the write lock of the file, or None
    committed,    \* history: per script, the migration transactions committed
    pc,           \* per process: the statement it is at
    run,          \* per process: New calls made so far
    env,          \* per process: LITESTREAM_ACCESS_KEY is set in its environment
    pool,         \* per process: the sqlx.DB of the current New call
    cancelled,    \* per process: the background context is cancelled
    settings,     \* per process: the PRAGMA settings applied, in order
    pragma,       \* per process: the PRAGMA statement New is at
    names,        \* per process: migrate's sorted names
    idx,          \* per process: migrate's loop position
    tx,           \* per process: the open transaction of migrateFile
    ret,          \* per process: what New returned
    closes,       \* per process: Close calls made on the returned handle
    closeRet,     \* per process: the result of the last Close call
    startDb,      \* history: the database when the New call began
    outcome,      \* history: how the latest run's migrate ended
    prevOk,       \* history: the run before this one ended with success
    begun,        \* history: the scripts this run began a transaction for
    executed,     \* history: the scripts whose body this run executed
    inserted,     \* history: the scripts this run inserted a record for
    printed,      \* history: the scripts this run reported as a success
    applied,      \* history: the scripts this run committed
    fault,        \* history: the step that failed in this run
    recordOrder,  \* history: the scripts in the order their records were created
    prevSettings, \* history: the settings the process's previous New call applied
    served,       \* per process: main has entered server.Run
    conns         \* per process: the connections of the pool

logVars == <<committed, recordOrder>>
runVars == <<run, prevSettings>>
dbVars == <<db, lock, logVars>>
connVars == <<pool, cancelled, settings, pragma, env>>
loopVars == <<names, idx>>
closeVars == <<closes, closeRet, served, conns>>
histVars == <<startDb, prevOk, begun, executed, inserted, printed, applied>>

vars == <<migrationFS, db, lock, committed, pc, run, env, pool, cancelled, settings,
          pragma, names, idx, tx, ret, closes, closeRet, startDb, outcome, prevOk,
          begun, executed, inserted, printed, applied, fault, recordOrder,
          prevSettings, served, conns>>

NoTx == [open |-> FALSE, snap |-> "none", effs |-> {}, recs |-> {}]

\* No step of the run has failed.
NoFault == [step |-> "none", name |-> NoName, done |-> 0]

EmptyDb == [table |-> FALSE, records |-> {}, effects |-> [s \in StmtIds |-> 0]]

NoRet == [handle |-> "unset", err |-> NoErr]

\* A pool without connections.  first is the connection sqlx.Connect opened,
\* on which New ran its PRAGMA statements; the others are opened later.
NoConns == [first |-> "none", laterIdle |-> 0, laterBusy |-> 0, waiting |-> 0]

\* No process has started and the database file does not exist.
InitState ==
    /\ db = EmptyDb
    /\ lock = None
    /\ committed = [n \in AllNames |-> 0]
    /\ pc = [p \in Procs |-> "idle"]
    /\ run = [p \in Procs |-> 0]
    /\ env = [p \in Procs |-> FALSE]
    /\ pool = [p \in Procs |-> "none"]
    /\ cancelled = [p \in Procs |-> FALSE]
    /\ settings = [p \in Procs |-> <<>>]
    /\ pragma = [p \in Procs |-> 1]
    /\ names = [p \in Procs |-> <<>>]
    /\ idx = [p \in Procs |-> 1]
    /\ tx = [p \in Procs |-> NoTx]
    /\ ret = [p \in Procs |-> NoRet]
    /\ closes = [p \in Procs |-> 0]
    /\ closeRet = [p \in Procs |-> "none"]
    /\ startDb = [p \in Procs |-> EmptyDb]
    /\ outcome = [p \in Procs |-> "none"]
    /\ prevOk = [p \in Procs |-> FALSE]
    /\ begun = [p \in Procs |-> <<>>]
    /\ executed = [p \in Procs |-> <<>>]
    /\ inserted = [p \in Procs |-> <<>>]
    /\ printed = [p \in Procs |-> <<>>]
    /\ applied = [p \in Procs |-> <<>>]
    /\ fault = [p \in Procs |-> NoFault]
    /\ recordOrder = <<>>
    /\ prevSettings = [p \in Procs |-> <<>>]
    /\ served = [p \in Procs |-> FALSE]
    /\ conns = [p \in Procs |-> NoConns]

Init ==
    /\ migrationFS \in Enumerations(AllNames)
    /\ InitState

\* ------------------------------------------------------ the database file

\* The committed state after COMMIT of a transaction with write set t: its
\* body effects and its record become visible together.
Commit(d, t) ==
    [d EXCEPT !.records = d.records \cup t.recs,
              !.effects = [s \in StmtIds |->
                              d.effects[s] + (IF s \in t.effs THEN 1 ELSE 0)]]

\* Mutant of Rollback: the deferred call commits what the transaction wrote.
RollbackCommits(d, t) == Commit(d, t)

\* The committed state after tx.Rollback() of a transaction with write set t.
Rollback(d, t) == d

\* A transaction of p may write: nobody else holds the write lock, and nobody
\* committed since p's transaction took its read snapshot.
TxWritable(p) == lock \in {None, p} /\ tx[p].snap # "stale"

\* The transactions after p committed: the read snapshots of the others are
\* no longer current.
AfterCommit(p) ==
    [q \in Procs |->
        IF q = p THEN NoTx
        ELSE IF tx[q].snap = "fresh" THEN [tx[q] EXCEPT !.snap = "stale"]
        ELSE tx[q]]

\* SELECT COUNT(*) FROM migrations WHERE name = ?
CountRecords(d, t, name) == IF name \in d.records \cup t.recs THEN 1 ELSE 0

\* Mutant of AlreadyRun: the condition is inverted.
AlreadyRunInverted(n) == n = 0

\* Mutant of AlreadyRun: the result of the record check is ignored.
AlreadyRunIgnored(n) == FALSE

\* n != 0: the migration has already been run.
AlreadyRun(n) == n # 0

\* Mutant of LoopDone: the loop stops one script early.
LoopDoneEarly(ns, i) == i >= Len(ns)

\* The range loop of migrate has passed the last name.
LoopDone(ns, i) == i > Len(ns)

\* The script migrateFile is running for.
CurName(p) == names[p][idx[p]]

\* ----------------------------------------------------------------- New

\* New returns (h, e) to its caller.
Return(p, h, e) ==
    /\ pc' = [pc EXCEPT ![p] = "returned"]
    /\ ret' = [ret EXCEPT ![p] = [handle |-> h, err |-> e]]

\* sqlx.Connect, the context, the Sqlite value and the pool settings.
NewConnect(p) ==
    /\ pc[p] = "idle"
    /\ run[p] < MaxRuns
    /\ run' = [run EXCEPT ![p] = @ + 1]
    /\ \E e \in BOOLEAN : env' = [env EXCEPT ![p] = e]
    /\ startDb' = [startDb EXCEPT ![p] = db]
    /\ prevOk' = [prevOk EXCEPT ![p] = (outcome[p] = "ok")]
    /\ \/ /\ pool' = [pool EXCEPT ![p] = "open"]
          /\ pc' = [pc EXCEPT ![p] = "pragma"]
          /\ outcome' = [outcome EXCEPT ![p] = "running"]
          /\ fault' = [fault EXCEPT ![p] = NoFault]
          /\ conns' = [conns EXCEPT ![p] = [NoConns EXCEPT !.first = "idle"]]
          /\ UNCHANGED ret
       \/ /\ Return(p, "nil", [label |-> "connect", name |-> NoName, cause |-> "open"])
          /\ outcome' = [outcome EXCEPT ![p] = "err"]
          /\ fault' = [fault EXCEPT ![p] = [step |-> "connect", name |-> NoName, done |-> 0]]
          /\ UNCHANGED <<pool, conns>>
    /\ UNCHANGED <<migrationFS, dbVars, cancelled, settings, pragma, loopVars, tx,
                   closes, closeRet, served, prevSettings, begun, executed, inserted,
                   printed, applied>>

\* The PRAGMA statement after the i-th: wal_autocheckpoint only when the
\* environment holds LITESTREAM_ACCESS_KEY.
LastPragma(p) == IF env[p] THEN 5 ELSE 4

\* One PRAGMA statement of New.
NewPragma(p) ==
    /\ pc[p] = "pragma"
    /\ \/ /\ settings' = [settings EXCEPT ![p] = Append(@, PragmaSetting(pragma[p]))]
          /\ IF pragma[p] < LastPragma(p)
                THEN /\ pragma' = [pragma EXCEPT ![p] = @ + 1]
                     /\ pc' = pc
                ELSE /\ pragma' = pragma
                     /\ pc' = [pc EXCEPT ![p] = "create"]
          /\ UNCHANGED <<ret, outcome, fault>>
       \/ /\ Return(p, "nil", PragmaError(PragmaLabel(pragma[p])))
          /\ outcome' = [outcome EXCEPT ![p] = "err"]
          /\ fault' = [fault EXCEPT ![p] = [step |-> PragmaSetting(pragma[p]), name |-> NoName, done |-> 0]]
          /\ UNCHANGED <<settings, pragma>>
    /\ UNCHANGED <<migrationFS, dbVars, runVars, env, pool, cancelled, loopVars, tx,
                   closeVars, histVars>>

\* ------------------------------------------------------------- migrate

\* CREATE TABLE IF NOT EXISTS migrations, outside any transaction.
MigrateCreateTable(p) ==
    /\ pc[p] = "create"
    /\ \/ /\ db' = [db EXCEPT !.table = TRUE]
          /\ pc' = [pc EXCEPT ![p] = "glob"]
          /\ UNCHANGED <<ret, outcome, fault>>
       \/ /\ Return(p, "nil", CreateTableError)
          /\ outcome' = [outcome EXCEPT ![p] = "err"]
          /\ fault' = [fault EXCEPT ![p] = [step |-> "create", name |-> NoName, done |-> 0]]
          /\ UNCHANGED db
    /\ UNCHANGED <<migrationFS, lock, logVars, runVars, connVars, loopVars, tx,
                   closeVars, histVars>>

\* fs.Glob and sort.Strings.
MigrateGlob(p) ==
    /\ pc[p] = "glob"
    /\ names' = [names EXCEPT ![p] = SortStrings(migrationFS)]
    /\ idx' = [idx EXCEPT ![p] = 1]
    /\ pc' = [pc EXCEPT ![p] = "loop"]
    /\ UNCHANGED <<migrationFS, dbVars, runVars, connVars, tx, ret, closeVars, outcome,
                   histVars, fault>>

\* Mutant of TxDone: migrateFile has no deferred Rollback.
TxDoneMissing(t) == t

\* The transaction t of migrateFile after the deferred tx.Rollback().
TxDone(t) == NoTx

\* migrateFile returns an error: the deferred Rollback runs, migrate wraps the
\* error with the script's name and returns, New wraps it and returns nil.
FailFile(p, t, step, cause) ==
    /\ db' = Rollback(db, t)
    /\ lock' = IF lock = p THEN None ELSE lock
    /\ tx' = [tx EXCEPT ![p] = TxDone(t)]
    /\ Return(p, "nil", MigrateError(CurName(p), cause))
    /\ outcome' = [outcome EXCEPT ![p] = "err"]
    /\ fault' = [fault EXCEPT ![p] =
                    [step |-> step, name |-> CurName(p), done |-> Cardinality(t.effs)]]

\* The head of migrate's loop: return nil after the last name (New returns
\* the handle), or call migrateFile, which begins a transaction.
MigrateLoop(p) ==
    /\ pc[p] = "loop"
    /\ IF LoopDone(names[p], idx[p])
          THEN /\ Return(p, "db", NoErr)
               /\ outcome' = [outcome EXCEPT ![p] = "ok"]
               /\ UNCHANGED <<db, lock, tx, begun, fault>>
          ELSE /\ begun' = [begun EXCEPT ![p] = Append(@, CurName(p))]
               /\ \/ /\ tx' = [tx EXCEPT ![p] = [NoTx EXCEPT !.open = TRUE]]
                     /\ pc' = [pc EXCEPT ![p] = "check"]
                     /\ UNCHANGED <<db, lock, ret, outcome, fault>>
                  \/ FailFile(p, NoTx, "begin", "begin")
    /\ UNCHANGED <<migrationFS, logVars, runVars, connVars, loopVars, closeVars,
                   startDb, prevOk, executed, inserted, printed, applied>>

\* The record check of migrateFile; an already recorded script returns nil
\* and the deferred Rollback ends the transaction.
MigrateFileCheck(p) ==
    /\ pc[p] = "check"
    /\ \/ /\ IF AlreadyRun(CountRecords(db, tx[p], CurName(p)))
                THEN /\ db' = Rollback(db, tx[p])
                     /\ tx' = [tx EXCEPT ![p] = TxDone(tx[p])]
                     /\ idx' = [idx EXCEPT ![p] = @ + 1]
                     /\ pc' = [pc EXCEPT ![p] = "loop"]
                ELSE /\ db' = db
                     /\ tx' = [tx EXCEPT ![p] = [@ EXCEPT !.snap = "fresh"]]
                     /\ idx' = idx
                     /\ pc' = [pc EXCEPT ![p] = "exec"]
          /\ UNCHANGED <<lock, ret, outcome, fault>>
       \/ /\ FailFile(p, tx[p], "check", "query")
          /\ UNCHANGED idx
    /\ UNCHANGED <<migrationFS, logVars, runVars, connVars, names, closeVars, histVars>>

\* The statements of script name that ran before the failing one (all of
\* them when failAt = 0).
StmtsRun(name, failAt) ==
    {<<name, i>> : i \in {j \in 1..MaxStmts : failAt = 0 \/ j < failAt}}

\* Mutant of MigrateFileExec: the body is executed on the pool (db.db.Exec),
\* outside the transaction, so that it is committed statement by statement.
MigrateFileExecOutsideTx(p) ==
    /\ pc[p] = "exec"
    /\ lock \in {None, p}
    /\ executed' = [executed EXCEPT ![p] = Append(@, CurName(p))]
    /\ \E failAt \in 0..MaxStmts :
          LET t == [NoTx EXCEPT !.effs = StmtsRun(CurName(p), failAt)]
          IN  IF failAt = 0
                 THEN /\ db' = Commit(db, t)
                      /\ pc' = [pc EXCEPT ![p] = "insert"]
                      /\ UNCHANGED <<lock, tx, ret, outcome, fault>>
                 ELSE /\ db' = Commit(db, t)
                      /\ lock' = IF lock = p THEN None ELSE lock
                      /\ tx' = [tx EXCEPT ![p] = NoTx]
                      /\ Return(p, "nil", MigrateError(CurName(p), "exec"))
                      /\ outcome' = [outcome EXCEPT ![p] = "err"]
                      /\ fault' = [fault EXCEPT ![p] =
                             [step |-> "exec", name |-> CurName(p), done |-> failAt - 1]]
    /\ UNCHANGED <<migrationFS, logVars, runVars, connVars, loopVars, closeVars,
                   startDb, prevOk, begun, inserted, printed, applied>>

\* Mutant of MigrateFileExec: without a busy timeout the step waits until the
\* write lock is free.
MigrateFileExecNoTimeout(p) ==
    /\ pc[p] = "exec"
    /\ TxWritable(p)
    /\ \/ /\ FailFile(p, tx[p], "read", "read")
          /\ UNCHANGED executed
       \/ /\ executed' = [executed EXCEPT ![p] = Append(@, CurName(p))]
          /\ \E failAt \in 0..MaxStmts :
                LET t == [tx[p] EXCEPT !.snap = "fresh", !.effs = StmtsRun(CurName(p), failAt)]
                IN  IF failAt = 0
                       THEN /\ tx' = [tx EXCEPT ![p] = t]
                            /\ lock' = p
                            /\ pc' = [pc EXCEPT ![p] = "insert"]
                            /\ UNCHANGED <<db, ret, outcome, fault>>
                       ELSE FailFile(p, t, "exec", "exec")
    /\ UNCHANGED <<migrationFS, logVars, runVars, connVars, loopVars, closeVars,
                   startDb, prevOk, begun, inserted, printed, applied>>

\* fs.ReadFile and tx.Exec of the script body.
MigrateFileExec(p) ==
    /\ pc[p] = "exec"
    /\ \/ /\ FailFile(p, tx[p], "read", "read")
          /\ UNCHANGED executed
       \/ /\ ~TxWritable(p)
          /\ FailFile(p, tx[p], "exec", "busy")
          /\ UNCHANGED executed
       \/ /\ TxWritable(p)
          /\ executed' = [executed EXCEPT ![p] = Append(@, CurName(p))]
          /\ \E failAt \in 0..MaxStmts :
                LET t == [tx[p] EXCEPT !.snap = "fresh", !.effs = StmtsRun(CurName(p), failAt)]
                IN  IF failAt = 0
                       THEN /\ tx' = [tx EXCEPT ![p] = t]
                            /\ lock' = p
                            /\ pc' = [pc EXCEPT ![p] = "insert"]
                            /\ UNCHANGED <<db, ret, outcome, fault>>
                       ELSE FailFile(p, t, "exec", "exec")
    /\ UNCHANGED <<migrationFS, logVars, runVars, connVars, loopVars, closeVars,
                   startDb, prevOk, begun, inserted, printed, applied>>

\* Mutant of MigrateFileInsert: the record is inserted on the pool
\* (db.db.Exec), outside the transaction.
MigrateFileInsertOutsideTx(p) ==
    /\ pc[p] = "insert"
    /\ CurName(p) \notin db.records
    /\ db' = [db EXCEPT !.records = @ \cup {CurName(p)}]
    /\ inserted' = [inserted EXCEPT ![p] = Append(@, CurName(p))]
    /\ printed' = [printed EXCEPT ![p] = Append(@, CurName(p))]
    /\ pc' = [pc EXCEPT ![p] = "commit"]
    /\ UNCHANGED <<migrationFS, lock, tx, ret, outcome, fault, logVars, runVars, connVars,
                   loopVars, closeVars, startDb, prevOk, begun, executed, applied>>

\* INSERT INTO migrations and the "migration success" line.
MigrateFileInsert(p) ==
    /\ pc[p] = "insert"
    /\ \/ /\ CurName(p) \notin db.records \cup tx[p].recs
          /\ TxWritable(p)
          /\ tx' = [tx EXCEPT ![p] = [@ EXCEPT !.recs = @ \cup {CurName(p)}]]
          /\ lock' = p
          /\ inserted' = [inserted EXCEPT ![p] = Append(@, CurName(p))]
          /\ printed' = [printed EXCEPT ![p] = Append(@, CurName(p))]
          /\ pc' = [pc EXCEPT ![p] = "commit"]
          /\ UNCHANGED <<db, ret, outcome, fault>>
       \/ /\ FailFile(p, tx[p], "insert", "insert")
          /\ UNCHANGED <<inserted, printed>>
    /\ UNCHANGED <<migrationFS, logVars, runVars, connVars, loopVars, closeVars,
                   startDb, prevOk, begun, executed, applied>>

\* tx.Commit(); a failed COMMIT leaves nothing of the transaction.
MigrateFileCommit(p) ==
    /\ pc[p] = "commit"
    /\ \/ /\ db' = Commit(db, tx[p])
          /\ lock' = IF lock = p THEN None ELSE lock
          /\ tx' = AfterCommit(p)
          /\ committed' = [committed EXCEPT ![CurName(p)] = @ + 1]
          /\ recordOrder' = Append(recordOrder, CurName(p))
          /\ applied' = [applied EXCEPT ![p] = Append(@, CurName(p))]
          /\ idx' = [idx EXCEPT ![p] = @ + 1]
          /\ pc' = [pc EXCEPT ![p] = "loop"]
          /\ UNCHANGED <<ret, outcome, fault>>
       \/ /\ FailFile(p, tx[p], "commit", "commit")
          /\ UNCHANGED <<logVars, applied, idx>>
    /\ UNCHANGED <<migrationFS, runVars, connVars, names, closeVars, startDb, prevOk,
                   begun, executed, inserted, printed>>

\* --------------------------------------------------------------- Close

\* Mutant of SqliteClose: the receiver is used without the nil check.
SqliteCloseNoNilCheck(h, pl, c, fails) ==
    IF h = "nil"
      THEN [result |-> "panic", pool |-> pl, cancelled |-> c]
      ELSE [result |-> IF pl = "open" /\ fails THEN "error" ELSE "nil",
            pool |-> "closed", cancelled |-> TRUE]

\* Sqlite.Close on handle h, with the pool in state pl and the context
\* cancelled or not (c): on a nil receiver nothing happens; otherwise
\* db.cancel(), then sql.DB.Close, which returns nil on a closed pool and may
\* fail while closing the connections of an open one.
SqliteClose(h, pl, c, fails) ==
    IF h = "nil"
      THEN [result |-> "nil", pool |-> pl, cancelled |-> c]
      ELSE [result |-> IF pl = "open" /\ fails THEN "error" ELSE "nil",
            pool |-> "closed", cancelled |-> TRUE]

\* The caller of New calls Close on the handle New returned.
Close(p) ==
    /\ pc[p] = "returned"
    /\ closes[p] < MaxClose
    /\ closeRet[p] # "panic"
    /\ \E fails \in BOOLEAN :
          LET r == SqliteClose(ret[p].handle, pool[p], cancelled[p], fails)
          IN  /\ closeRet' = [closeRet EXCEPT ![p] = r.result]
              /\ pool' = [pool EXCEPT ![p] = r.pool]
              /\ cancelled' = [cancelled EXCEPT ![p] = r.cancelled]
              /\ conns' = [conns EXCEPT ![p] = IF r.pool = "closed" THEN NoConns ELSE @]
    /\ closes' = [closes EXCEPT ![p] = @ + 1]
    /\ UNCHANGED <<migrationFS, dbVars, pc, runVars, env, served, settings, pragma, loopVars, tx,
                   ret, startDb, outcome, prevOk, begun, executed, inserted, printed,
                   applied, fault>>

\* ------------------------------------------------------- process death

\* The process is gone: its memory, its pool and its open transaction with it.
ProcessGone(p) ==
    /\ pc' = [pc EXCEPT ![p] = "idle"]
    /\ lock' = IF lock = p THEN None ELSE lock
    /\ tx' = [tx EXCEPT ![p] = NoTx]
    /\ pool' = [pool EXCEPT ![p] = "none"]
    /\ cancelled' = [cancelled EXCEPT ![p] = FALSE]
    /\ settings' = [settings EXCEPT ![p] = <<>>]
    /\ pragma' = [pragma EXCEPT ![p] = 1]
    /\ env' = [env EXCEPT ![p] = FALSE]
    /\ names' = [names EXCEPT ![p] = <<>>]
    /\ idx' = [idx EXCEPT ![p] = 1]
    /\ ret' = [ret EXCEPT ![p] = NoRet]
    /\ closes' = [closes EXCEPT ![p] = 0]
    /\ closeRet' = [closeRet EXCEPT ![p] = "none"]
    /\ startDb' = [startDb EXCEPT ![p] = EmptyDb]
    /\ prevOk' = [prevOk EXCEPT ![p] = FALSE]
    /\ begun' = [begun EXCEPT ![p] = <<>>]
    /\ executed' = [executed EXCEPT ![p] = <<>>]
    /\ inserted' = [inserted EXCEPT ![p] = <<>>]
    /\ printed' = [printed EXCEPT ![p] = <<>>]
    /\ applied' = [applied EXCEPT ![p] = <<>>]
    /\ served' = [served EXCEPT ![p] = FALSE]
    /\ conns' = [conns EXCEPT ![p] = NoConns]
    /\ prevSettings' = [prevSettings EXCEPT ![p] =
                           IF Len(settings[p]) = LastPragma(p) THEN settings[p] ELSE @]
    /\ UNCHANGED <<migrationFS, db, logVars, run>>

\* The process is killed while it runs New or serves.
Kill(p) ==
    /\ pc[p] \notin {"idle", "returned", "exited"}
    /\ outcome' = [outcome EXCEPT ![p] = IF @ = "running" THEN "killed" ELSE @]
    /\ fault' = [fault EXCEPT ![p] =
                    [step |-> "kill",
                     name |-> IF tx[p].open THEN CurName(p) ELSE NoName,
                     done |-> Cardinality(tx[p].effs) + Cardinality(tx[p].recs)]]
    /\ ProcessGone(p)

\* The process ends after New returned.
Exit(p) ==
    /\ pc[p] = "returned"
    /\ UNCHANGED outcome
    /\ fault' = [fault EXCEPT ![p] = NoFault]
    /\ ProcessGone(p)

\* ------------------------------------------------------ specifications

Step(p) ==
    \/ NewConnect(p)
    \/ NewPragma(p)
    \/ MigrateCreateTable(p)
    \/ MigrateGlob(p)
    \/ MigrateLoop(p)
    \/ MigrateFileCheck(p)
    \/ MigrateFileExec(p)
    \/ MigrateFileInsert(p)
    \/ MigrateFileCommit(p)
    \/ Close(p)
    \/ Kill(p)
    \/ Exit(p)

\* One process, started again after it ends or is killed.
Next == \E p \in SeqProcs : Step(p)

Spec == Init /\ [][Next]_vars

\* The settings New has applied when it calls migrate.
SettingsApplied(e) ==
    [i \in 1..(IF e THEN 5 ELSE 4) |-> PragmaSetting(i)]

\* Two processes on the same database file, each in its last New call, which
\* has opened the pool and applied the pragmas and now calls migrate.
InitConc ==
    /\ migrationFS \in Enumerations(AllNames)
    /\ db = EmptyDb
    /\ lock = None
    /\ committed = [n \in AllNames |-> 0]
    /\ pc = [p \in Procs |-> "create"]
    /\ run = [p \in Procs |-> MaxRuns]
    /\ env = [p \in Procs |-> FALSE]
    /\ pool = [p \in Procs |-> "open"]
    /\ cancelled = [p \in Procs |-> FALSE]
    /\ settings = [p \in Procs |-> SettingsApplied(FALSE)]
    /\ pragma = [p \in Procs |-> 4]
    /\ names = [p \in Procs |-> <<>>]
    /\ idx = [p \in Procs |-> 1]
    /\ tx = [p \in Procs |-> NoTx]
    /\ ret = [p \in Procs |-> NoRet]
    /\ closes = [p \in Procs |-> 0]
    /\ closeRet = [p \in Procs |-> "none"]
    /\ startDb = [p \in Procs |-> EmptyDb]
    /\ outcome = [p \in Procs |-> "running"]
    /\ prevOk = [p \in Procs |-> FALSE]
    /\ begun = [p \in Procs |-> <<>>]
    /\ executed = [p \in Procs |-> <<>>]
    /\ inserted = [p \in Procs |-> <<>>]
    /\ printed = [p \in Procs |-> <<>>]
    /\ applied = [p \in Procs |-> <<>>]
    /\ fault = [p \in Procs |-> NoFault]
    /\ recordOrder = <<>>
    /\ prevSettings = [p \in Procs |-> <<>>]
    /\ served = [p \in Procs |-> FALSE]
    /\ conns = [p \in Procs |-> [NoConns EXCEPT !.first = "idle"]]

StepConc(p) ==
    \/ MigrateCreateTable(p)
    \/ MigrateGlob(p)
    \/ MigrateLoop(p)
    \/ MigrateFileCheck(p)
    \/ MigrateFileExec(p)
    \/ MigrateFileInsert(p)
    \/ MigrateFileCommit(p)
    \/ Kill(p)

NextConc == \E p \in Procs : StepConc(p)

SpecConc == InitConc /\ [][NextConc]_vars

\* ------------------------------------------------------------- claims

\* The scripts of ns that have no record in recs, in the order of ns.
Pending(ns, recs) == SelectSeq(ns, LAMBDA n : n \notin recs)

\* The scripts of ns that sort before k.
Before(ns, k) == {n \in Range(ns) : LexLess(n, k)}

\* New has returned an error to its caller.
Failed(p) == pc[p] = "returned" /\ ret[p].err # NoErr

\* New has returned the handle and no error.
Succeeded(p) == pc[p] = "returned" /\ ret[p].err = NoErr

\* New has returned after it called migrate: migrate was not interrupted.
MigrateReturned(p) ==
    pc[p] = "returned" /\ Len(settings[p]) = LastPragma(p)

\* C1: when the body of script k fails to execute, then after the error is
\* returned the migrations table holds the records it held before the run
\* and a record of every script sorting before k, holds no record of k, and
\* no statement of k's body is committed.
C1_AtomicityOnFailure ==
    \A p \in Procs :
        (pc[p] = "returned" /\ fault[p].step = "exec") =>
            LET k == fault[p].name
            IN  /\ ret[p].err # NoErr
                /\ db.records = startDb[p].records \cup Before(names[p], k)
                /\ k \notin db.records
                /\ \A i \in 1..MaxStmts : db.effects[<<k, i>>] = 0

\* C1 witness: the body of 0002 failed after its first statement ran, 0001
\* was committed by this run, and New has returned.
C1_Witness ==
    \E p \in Procs :
        /\ pc[p] = "returned"
        /\ fault[p] = [step |-> "exec", name |-> <<0, 0, 0, 2>>, done |-> 1]
        /\ applied[p] = <<(<<0, 0, 0, 1>>)>>

\* C2: in every committed state of the database, a script has a record only
\* if every statement of its body is committed, and a script without a
\* record has no statement committed: both appear together or not at all.
C2_RecordImpliesCommitted ==
    \A n \in AllNames :
        /\ n \in db.records => \A i \in 1..MaxStmts : db.effects[<<n, i>>] >= 1
        /\ n \notin db.records => \A i \in 1..MaxStmts : db.effects[<<n, i>>] = 0

\* C2 witness: the process was killed after the body and the record of 0002
\* were written in the transaction and before the commit.
C2_Witness ==
    \E p \in Procs :
        /\ pc[p] = "idle"
        /\ fault[p] = [step |-> "kill", name |-> <<0, 0, 0, 2>>, done |-> MaxStmts + 1]
        /\ db.records = {<<0, 0, 0, 1>>}

\* The parts of C3 that are about every state of a sequence of runs: no body
\* is committed twice, and no run executes the body of a script that had a
\* record when the run began.
C3_AtMostOnce ==
    /\ \A n \in AllNames : committed[n] <= 1
    /\ \A s \in StmtIds : db.effects[s] <= 1
    /\ \A p \in Procs : Range(executed[p]) \cap startDb[p].records = {}

C4_Idempotence ==
    \A p \in Procs :
        prevOk[p] =>
            /\ executed[p] = <<>>
            /\ inserted[p] = <<>>
            /\ db = startDb[p]

\* C4 witness: the second of two runs in succession has checked every
\* script and returned, after the first run applied them all.
C4_Witness ==
    \E p \in Procs :
        /\ prevOk[p]
        /\ Succeeded(p)
        /\ Len(begun[p]) = Cardinality(AllNames)
        /\ db.records = AllNames

\* C5: whatever the order of enumeration, a run begins the scripts in
\* ascending lexicographic order of name without skipping one, and it begins
\* a script only when every script before it is committed.
C5_OrderWithinRun ==
    \A p \in Procs :
        /\ IsSorted(begun[p])
        /\ \A i \in 1..Len(begun[p]) :
              /\ Before(migrationFS, begun[p][i]) = {begun[p][j] : j \in 1..(i - 1)}
              /\ Before(migrationFS, begun[p][i]) \subseteq db.records
        /\ Cardinality({q \in Procs : tx[q].open}) <= 1

\* C5 witness: the source enumerates 0010, 0002, 0001 and the run applied
\* 0001, 0002, 0010.
C5_Witness ==
    \E p \in Procs :
        /\ migrationFS = <<(<<0, 0, 1, 0>>), (<<0, 0, 0, 2>>), (<<0, 0, 0, 1>>)>>
        /\ Succeeded(p)
        /\ applied[p] = <<(<<0, 0, 0, 1>>), (<<0, 0, 0, 2>>), (<<0, 0, 1, 0>>)>>

\* The steps of migrateFile after the transaction has begun.
FileSteps == {"check", "read", "exec", "insert", "commit"}

\* C6: when a step of migrateFile fails for script k, the transaction of k is
\* rolled back (it is closed, it holds no lock, and it committed neither a
\* record nor a statement of k), the error New returns carries the name k, and no transaction
\* was begun for a script sorting after k.
C6_AbortOnFirstFailure ==
    \A p \in Procs :
        (pc[p] = "returned" /\ fault[p].step \in FileSteps) =>
            LET k == fault[p].name
            IN  /\ tx[p] = NoTx
                /\ lock # p
                /\ k \notin Range(applied[p])
                /\ db.records = startDb[p].records \cup Range(applied[p])
                /\ \A i \in 1..MaxStmts :
                      db.effects[<<k, i>>] = startDb[p].effects[<<k, i>>]
                /\ ret[p].handle = "nil"
                /\ ret[p].err # NoErr
                /\ ret[p].err.name = k
                /\ begun[p] # <<>>
                /\ begun[p][Len(begun[p])] = k
                /\ \A n \in Range(begun[p]) : ~LexLess(k, n)

\* C6 witness: the commit of 0002 failed after 0001 was applied, and 0010
\* was not begun.
C6_Witness ==
    \E p \in Procs :
        /\ pc[p] = "returned"
        /\ fault[p].step = "commit"
        /\ fault[p].name = <<0, 0, 0, 2>>
        /\ begun[p] = <<(<<0, 0, 0, 1>>), (<<0, 0, 0, 2>>)>>
        /\ <<0, 0, 0, 1>> \in db.records

\* C7: when migrate (and so New) returns without an error, every embedded
\* script has a record in the migrations table.
C7_SuccessPostcondition ==
    \A p \in Procs : Succeeded(p) => Range(migrationFS) \subseteq db.records

\* C7 witness: a run succeeded with one record found and two committed by it.
C7_Witness ==
    \E p \in Procs :
        /\ Succeeded(p)
        /\ startDb[p].records = {<<0, 0, 0, 1>>}
        /\ Len(applied[p]) = 2

\* C8: with two processes running migrate on the same file, no script has
\* more than one committed migration transaction, whoever ran it, and no
\* statement of a body is committed more than once.
C8_NoDoubleCommit ==
    /\ \A n \in AllNames : committed[n] <= 1
    /\ \A s \in StmtIds : db.effects[s] <= 1
    /\ \A n \in AllNames : ~(\A p \in Procs : n \in Range(applied[p]))

\* C8 witness: both processes found 0001 unrecorded in their transactions;
\* one committed it and the other failed on the lock or the stale snapshot.
C8_Witness ==
    \E p, q \in Procs :
        /\ p # q
        /\ applied[p] # <<>>
        /\ applied[p][1] = <<0, 0, 0, 1>>
        /\ pc[q] = "returned"
        /\ fault[q] = [step |-> "exec", name |-> <<0, 0, 0, 1>>, done |-> 0]
        /\ ret[q].err.cause = "busy"

\* C9: when New fails after the database was opened, no pool opened by that
\* call is left open when it returns, and Close on the returned handle does
\* not panic.
C9_NoPoolLeftOpen ==
    \A p \in Procs :
        (Failed(p) /\ fault[p].step # "connect") =>
            /\ pool[p] # "open"
            /\ closeRet[p] # "panic"

\* C10: Close on a nil handle returns nil and changes nothing; on a handle
\* the first Close cancels the context and closes the pool, no Close
\* panics, and every Close after the first returns nil and changes nothing.
C10_CloseIdempotent ==
    \A p \in Procs :
        /\ closeRet[p] # "panic"
        /\ (closes[p] >= 1 /\ ret[p].handle = "nil") =>
              /\ closeRet[p] = "nil"
              /\ ~cancelled[p]
              /\ pool[p] # "closed"
        /\ (closes[p] >= 1 /\ ret[p].handle = "db") =>
              /\ cancelled[p]
              /\ pool[p] = "closed"
        /\ closes[p] >= 2 => closeRet[p] = "nil"

\* C10 witness: Close was called twice on the handle of a successful New.
C10_Witness ==
    \E p \in Procs :
        /\ Succeeded(p)
        /\ ret[p].handle = "db"
        /\ closes[p] = 2
        /\ closeRet[p] = "nil"
        /\ pool[p] = "closed"

\* The settings New applies with PRAGMA statements.
PragmaSettings == {PragmaSetting(i) : i \in 1..5}

\* The setting an error label of New names.
SettingNamedBy(label) ==
    CASE label = "enable wal" -> "journal_mode=wal"
      [] label = "synchronous pragma" -> "synchronous=NORMAL"
      [] label = "foreign keys pragma" -> "foreign_keys=ON"
      [] label = "busy timeout pragma" -> "busy_timeout=5000"
      [] label = "wal autocheckpoint pragma" -> "wal_autocheckpoint=0"
      [] OTHER -> "none"

\* C11: when New fails because a setting cannot be applied, the label of the
\* returned error names the setting that failed and no other setting.
C11_ErrorIdentifiesSetting ==
    \A p \in Procs :
        (pc[p] = "returned" /\ fault[p].step \in PragmaSettings) =>
            /\ ret[p].err # NoErr
            /\ SettingNamedBy(ret[p].err.label) = fault[p].step

\* C17: in every run that has returned, the names reported as a success are
\* the names whose transaction committed in that run.
C17_ReportMatchesCommits ==
    \A p \in Procs :
        pc[p] = "returned" => Range(printed[p]) = Range(applied[p])

\* The places of migrateFile between db.db.Begin() and its return.
InMigrateFile == {"check", "exec", "insert", "commit"}

\* C20: a process holds a transaction only while it is inside migrateFile;
\* everywhere else (in the loop between two scripts, after migrate returned
\* with or without an error, after the process is gone) its transaction is
\* finished and it holds no write lock.
C20_NoLeakedTransaction ==
    \A p \in Procs :
        pc[p] \notin InMigrateFile => (tx[p] = NoTx /\ lock # p)

\* C20 witness: migrate returned an error from a script whose statements had
\* already run inside the transaction, and nothing of it is left open.
C20_Witness ==
    \E p \in Procs :
        /\ pc[p] = "returned"
        /\ fault[p].step \in {"insert", "commit"}
        /\ executed[p] # <<>>
        /\ tx[p] = NoTx
        /\ lock = None

\* ----------------------------------------------------------------- main

\* The limit of SetMaxOpenConns.
MaxOpenConns == 25

\* The requests that may be in flight beyond MaxOpenConns.
ExtraCallers == 5

\* Mutant of MayServe: main ignores the error of database.New.
MayServeAlways(r) == TRUE

\* main goes on after database.New returned r: `if err != nil { logger.Fatal(err) }`.
MayServe(r) == r.err = NoErr

\* Everything but pc, served and the pool is left as it is.
UnchangedByMain ==
    UNCHANGED <<migrationFS, dbVars, runVars, env, settings, pragma, loopVars, tx, ret,
                startDb, outcome, prevOk, begun, executed, inserted, printed, applied,
                fault>>

\* database.New returned an error: logger.Fatal prints it and calls
\* os.Exit(1); the connections end with the process.
MainFatalNew(p) ==
    /\ pc[p] = "returned"
    /\ ~MayServe(ret[p])
    /\ pc' = [pc EXCEPT ![p] = "exited"]
    /\ conns' = [conns EXCEPT ![p] = NoConns]
    /\ UnchangedByMain
    /\ UNCHANGED <<pool, cancelled, closes, closeRet, served>>

\* defer db.Close(), the application value, "starting server", server.Run.
MainRun(p) ==
    /\ pc[p] = "returned"
    /\ MayServe(ret[p])
    /\ pc' = [pc EXCEPT ![p] = "serving"]
    /\ served' = [served EXCEPT ![p] = TRUE]
    /\ UnchangedByMain
    /\ UNCHANGED <<pool, cancelled, closes, closeRet, conns>>

\* server.Run returns.  With an error: logger.Fatal, whose os.Exit(1) ends the
\* process at once, the deferred calls of main do not run.  With nil:
\* "server stopped", main returns and its deferred db.Close() runs.  The
\* connections end with the process.
MainRunReturns(p) ==
    /\ pc[p] = "serving"
    /\ pc' = [pc EXCEPT ![p] = "exited"]
    /\ conns' = [conns EXCEPT ![p] = NoConns]
    /\ UNCHANGED served
    /\ \/ UNCHANGED <<pool, cancelled, closes, closeRet>>
       \/ /\ \E fails \in BOOLEAN :
                LET r == SqliteClose(ret[p].handle, pool[p], cancelled[p], fails)
                IN  /\ closeRet' = [closeRet EXCEPT ![p] = r.result]
                    /\ pool' = [pool EXCEPT ![p] = r.pool]
                    /\ cancelled' = [cancelled EXCEPT ![p] = r.cancelled]
          /\ closes' = [closes EXCEPT ![p] = @ + 1]
    /\ UnchangedByMain

\* The process has exited; it is started again.
MainRestart(p) ==
    /\ pc[p] = "exited"
    /\ UNCHANGED outcome
    /\ fault' = [fault EXCEPT ![p] = NoFault]
    /\ ProcessGone(p)

\* ------------------------------------------------------------- the pool

\* The connections of pool c that run a query.
InUse(c) == (IF c.first = "busy" THEN 1 ELSE 0) + c.laterBusy

\* The connections of pool c that are idle.
Idle(c) == (IF c.first = "idle" THEN 1 ELSE 0) + c.laterIdle

\* Mutant of PoolHasRoom: the pool has no limit (SetMaxOpenConns is missing).
PoolHasRoomUnlimited(n) == TRUE

\* A pool with n open connections may open one more.
PoolHasRoom(n) == n < MaxOpenConns

\* Only the pool's connections change.
UnchangedByPool ==
    UNCHANGED <<migrationFS, dbVars, pc, runVars, env, pool, cancelled, settings, pragma,
                loopVars, tx, ret, closes, closeRet, served, startDb, outcome, prevOk,
                begun, executed, inserted, printed, applied, fault>>

\* A request handler asks the pool for a connection: an idle one is taken;
\* without an idle one a new connection is opened if the limit allows it,
\* and otherwise the caller waits.
QueryStart(p) ==
    LET c == conns[p] IN
    /\ pc[p] = "serving"
    /\ InUse(c) + c.waiting < MaxOpenConns + ExtraCallers
    /\ \/ /\ c.first = "idle"
          /\ conns' = [conns EXCEPT ![p].first = "busy"]
       \/ /\ c.laterIdle > 0
          /\ conns' = [conns EXCEPT ![p].laterIdle = @ - 1, ![p].laterBusy = @ + 1]
       \/ /\ Idle(c) = 0
          /\ PoolHasRoom(InUse(c))
          /\ conns' = [conns EXCEPT ![p].laterBusy = @ + 1]
       \/ /\ Idle(c) = 0
          /\ ~PoolHasRoom(InUse(c))
          /\ conns' = [conns EXCEPT ![p].waiting = @ + 1]
    /\ UnchangedByPool

\* A query ends: its connection goes to a waiting caller, or becomes idle.
QueryEnd(p) ==
    LET c == conns[p] IN
    /\ pc[p] = "serving"
    /\ \/ /\ InUse(c) > 0
          /\ c.waiting > 0
          /\ conns' = [conns EXCEPT ![p].waiting = @ - 1]
       \/ /\ c.first = "busy"
          /\ c.waiting = 0
          /\ conns' = [conns EXCEPT ![p].first = "idle"]
       \/ /\ c.laterBusy > 0
          /\ c.waiting = 0
          /\ conns' = [conns EXCEPT ![p].laterIdle = @ + 1, ![p].laterBusy = @ - 1]
    /\ UnchangedByPool

\* An idle connection is closed: it was idle for ConnMaxIdleTime or has
\* reached ConnMaxLifetime.
ConnExpire(p) ==
    LET c == conns[p] IN
    /\ pc[p] = "serving"
    /\ \/ /\ c.first = "idle"
          /\ conns' = [conns EXCEPT ![p].first = "none"]
       \/ /\ c.laterIdle > 0
          /\ conns' = [conns EXCEPT ![p].laterIdle = @ - 1]
    /\ UnchangedByPool

StepMain(p) ==
    \/ NewConnect(p)
    \/ NewPragma(p)
    \/ MigrateCreateTable(p)
    \/ MigrateGlob(p)
    \/ MigrateLoop(p)
    \/ MigrateFileCheck(p)
    \/ MigrateFileExec(p)
    \/ MigrateFileInsert(p)
    \/ MigrateFileCommit(p)
    \/ MainFatalNew(p)
    \/ MainRun(p)
    \/ QueryStart(p)
    \/ QueryEnd(p)
    \/ ConnExpire(p)
    \/ MainRunReturns(p)
    \/ MainRestart(p)
    \/ Kill(p)

NextMain == \E p \in SeqProcs : StepMain(p)

\* The program of cmd/api: one process, started again after it ends.
SpecMain == Init /\ [][NextMain]_vars

\* C12: main has entered server.Run in this process only if New returned the
\* handle and no error with the pool open at that time, every pragma applied
\* and every script recorded; after New returned an error the process has
\* not served, no query of the application runs or waits, and the process
\* only exits.
C12_StartupGating ==
    \A p \in Procs :
        /\ served[p] =>
              /\ ret[p].err = NoErr
              /\ ret[p].handle # "nil"
              /\ settings[p] = SettingsApplied(env[p])
              /\ Range(migrationFS) \subseteq db.records
        /\ pc[p] = "serving" => pool[p] = "open"
        /\ (pc[p] \in {"returned", "exited"} /\ ret[p].err # NoErr) =>
              /\ ~served[p]
              /\ InUse(conns[p]) = 0
              /\ conns[p].waiting = 0
        /\ InUse(conns[p]) + conns[p].waiting > 0 => pc[p] = "serving"

\* C12 witness: the first start failed in a script and the process exited
\* without serving; the second start serves and runs a query.
C12_Witness ==
    \E p \in Procs :
        /\ run[p] = 2
        /\ ~prevOk[p]
        /\ Range(migrationFS) \ startDb[p].records # {}
        /\ pc[p] = "serving"
        /\ InUse(conns[p]) > 0

\* C13: when the process has exited after New succeeded, Close was called on
\* the handle.
C13_ShutdownCloses ==
    \A p \in Procs :
        (pc[p] = "exited" /\ ret[p].err = NoErr) => closes[p] >= 1

\* C15: the pool never has more than MaxOpenConns connections, in use or
\* idle; a caller waits only while MaxOpenConns connections are in use, and
\* every caller beyond the limit waits.
C15_PoolBound ==
    \A p \in Procs :
        LET c == conns[p] IN
        /\ InUse(c) + Idle(c) <= MaxOpenConns
        /\ c.waiting > 0 => (InUse(c) = MaxOpenConns /\ Idle(c) = 0)
        /\ c.waiting <= ExtraCallers

\* C15 witness: MaxOpenConns + ExtraCallers callers at once: MaxOpenConns
\* connections are in use and ExtraCallers callers wait.
C15_Witness ==
    \E p \in Procs :
        /\ InUse(conns[p]) = MaxOpenConns
        /\ conns[p].waiting = ExtraCallers

\* The settings a new connection has before any PRAGMA statement: the
\* driver's default busy timeout; foreign keys are off.
DriverDefaults == {"busy_timeout=5000"}

\* The settings of the open connections of p's pool: the first connection
\* has the settings of New's PRAGMA statements, a later one the defaults.
ConnSettings(p) ==
    (IF conns[p].first # "none" THEN {Range(settings[p])} ELSE {})
    \cup (IF conns[p].laterIdle + conns[p].laterBusy > 0 THEN {DriverDefaults} ELSE {})

\* C19: after New returned successfully every open connection of the pool
\* has foreign keys on and a busy timeout of 5000 ms.
C19_EveryConnectionConfigured ==
    \A p \in Procs :
        served[p] =>
            \A cs \in ConnSettings(p) :
                {"foreign_keys=ON", "busy_timeout=5000"} \subseteq cs

\* C14: two New calls with the same arguments on identical database files
\* (both start on the file as it is before any run) apply the same sequence
\* of settings, whatever the environment of the process holds.
C14_SettingsDependOnInputsOnly ==
    \A p \in Procs :
        ( /\ prevSettings[p] # <<>>
          /\ startDb[p] = EmptyDb
          /\ Len(settings[p]) = LastPragma(p) )
        => settings[p] = prevSettings[p]

\* --------------------------------------------- a growing set of scripts

\* The sets of scripts a deployment may hold.
ScriptSets == {S \in SUBSET AllNames : S # {}}

\* The first deployment holds some of the scripts.
InitGrow ==
    /\ \E S \in ScriptSets : migrationFS \in Enumerations(S)
    /\ InitState

\* A new version of the program is deployed while no process runs: its
\* embedded directory holds the scripts of the old one and more.
Deploy ==
    /\ \A p \in Procs : pc[p] = "idle"
    /\ \E S \in ScriptSets :
          /\ Range(migrationFS) \subseteq S
          /\ S # Range(migrationFS)
          /\ migrationFS' \in Enumerations(S)
    /\ UNCHANGED <<dbVars, pc, runVars, connVars, loopVars, tx, ret, closeVars,
                   histVars, outcome, fault>>

NextGrow == Deploy \/ \E p \in SeqProcs : Step(p)

\* One process, started again after it ends, on a set of scripts that grows
\* between its runs.
SpecGrow == InitGrow /\ [][NextGrow]_vars

\* C16: a run applies no script that sorts before a script recorded before
\* the run, and the records are created, over the whole history, in
\* strictly increasing order of name.
C16_CrossRunOrdering ==
    /\ \A p \in Procs : \A n \in Range(applied[p]) :
          \A m \in startDb[p].records : ~LexLess(n, m)
    /\ IsSorted(recordOrder)

\* ------------------------------------------------------------ fairness

\* A step of migrate in process p.
MigrateStep(p) ==
    \/ MigrateCreateTable(p)
    \/ MigrateGlob(p)
    \/ MigrateLoop(p)
    \/ MigrateFileCheck(p)
    \/ MigrateFileExec(p)
    \/ MigrateFileInsert(p)
    \/ MigrateFileCommit(p)

\* Two processes on the same database file; p1 is scheduled and its
\* statements end (a blocked one after the busy timeout), p2 may stop at any
\* point, also while it holds the write lock.
SpecLive == InitConc /\ [][NextConc]_vars /\ WF_vars(MigrateStep("p1"))

\* C18: under fairness the migrate run of p1 returns to New's caller (or the
\* process is killed), also when p2 holds the write lock for the whole run.
C18_Termination == (pc["p1"] = "create") ~> (pc["p1"] \in {"returned", "idle"})

\* C18 witness: p1's run has returned the busy error of a statement that
\* found the write lock held by p2, and p2 still holds it.
C18_Witness ==
    /\ pc["p1"] = "returned"
    /\ ret["p1"].err.cause = "busy"
    /\ lock = "p2"
    /\ tx["p2"].open
====
